---- MODULE Spec2Model ----
(***************************************************************************)
(* Model of the serde-hex codec: the SerHex visitor bridge, the option     *)
(* codec (SerHexOpt), the sequence codec (SerHexSeq / seq_from_bytes) and   *)
(* the integer and array codecs they dispatch to.                           *)
(*                                                                         *)
(* Hex text is a sequence of one-character strings.  A call is drawn in    *)
(* Init (operation, configuration, element width, value or raw input) and  *)
(* the actions run the serializer, the framework delivery and the visitor. *)
(***************************************************************************)
EXTENDS Integers, Sequences, FiniteSets, TLC

VARIABLES pc, op, conf, size, value, failAt, raw, wire, shape, result

vars == <<pc, op, conf, size, value, failAt, raw, wire, shape, result>>

-----------------------------------------------------------------------------
(* Bounds of the model. *)

\* longest sequence handed to SerHexSeq::serialize
MaxSeqLen == 3
\* longest raw input handed to the sequence and array decoders
MaxRawLen == 5
\* longest payload handed to the single-value decoders
MaxPayloadLen == 4
\* largest element size() of a sequence element type (0 is included)
MaxElemSize == 2
\* largest array length N of [u8; N]
MaxArrayLen == 3

-----------------------------------------------------------------------------
(* Configurations: the eight HexConf marker types. *)

Conf(s, p, c) == [strict |-> s, pfx |-> p, cap |-> c]

Strict == Conf(TRUE, FALSE, FALSE)
StrictPfx == Conf(TRUE, TRUE, FALSE)
StrictCap == Conf(TRUE, FALSE, TRUE)
StrictCapPfx == Conf(TRUE, TRUE, TRUE)
Compact == Conf(FALSE, FALSE, FALSE)
CompactPfx == Conf(FALSE, TRUE, FALSE)
CompactCap == Conf(FALSE, FALSE, TRUE)
CompactCapPfx == Conf(FALSE, TRUE, TRUE)

Configs ==
    {Strict, StrictPfx, StrictCap, StrictCapPfx,
     Compact, CompactPfx, CompactCap, CompactCapPfx}

\* the configurations SerHexSeq and the array codec are implemented for
StrictConfigs == {Strict, StrictPfx, StrictCap, StrictCapPfx}

withpfx(C) == C.pfx
withcap(C) == C.cap
compact(C) == ~C.strict

-----------------------------------------------------------------------------
(* Results and errors. *)

Ok(v) == [tag |-> "ok", val |-> v]
Err(e) == [tag |-> "err", err |-> e]
Panic == [tag |-> "panic"]
NoResult == [tag |-> "unset"]

SizeMismatch(expect, actual) ==
    [kind |-> "SizeMismatch", expected |-> expect, actual |-> actual, val |-> ""]
InvalidDigit(c) ==
    [kind |-> "InvalidDigit", expected |-> 0, actual |-> 0, val |-> c]

\* the error of an element whose into_hex_raw fails
EncodeError ==
    [kind |-> "Other", expected |-> 0, actual |-> 0, val |-> "encode failure"]

DecDigits == <<"0", "1", "2", "3", "4", "5", "6", "7", "8", "9">>

RECURSIVE ToDecimal(_)
\* a number as the text a {} placeholder formats it
ToDecimal(n) ==
    IF n < 10 THEN <<DecDigits[n + 1]>>
    ELSE ToDecimal(n \div 10) \o <<DecDigits[(n % 10) + 1]>>

\* the backquote character of the messages (not writable in a string here)
BQ == "BACKQUOTE"

\* the error's Display text, as a sequence of pieces
Display(e) ==
    IF e.kind = "SizeMismatch"
    THEN <<"expected buff size ", BQ>> \o ToDecimal(e.expected)
             \o <<BQ, " got ", BQ>> \o ToDecimal(e.actual) \o <<BQ>>
    ELSE IF e.kind = "InvalidDigit"
    THEN <<"non-hex character ", BQ, e.val, BQ>>
    ELSE <<e.val>>

\* serde's Error::custom: only the message survives
custom(msg) == [tag |-> "err", msg |-> msg]

\* `.map_err(E::custom)` on a codec result
map_err_custom(r) == IF r.tag = "err" THEN custom(Display(r.err)) ELSE r

BadSequenceSize == <<"bad hexadecimal sequence size">>

-----------------------------------------------------------------------------
(* Hex digits. *)

HexLower ==
    <<"0", "1", "2", "3", "4", "5", "6", "7",
      "8", "9", "a", "b", "c", "d", "e", "f">>
HexUpper ==
    <<"0", "1", "2", "3", "4", "5", "6", "7",
      "8", "9", "A", "B", "C", "D", "E", "F">>

fromval(v) == HexLower[v + 1]
fromvalcaps(v) == HexUpper[v + 1]

IsHexDigit(c) == \E i \in 1..16 : HexLower[i] = c \/ HexUpper[i] = c

\* the value of a hex digit, either case
intoval(c) == (CHOOSE i \in 1..16 : HexLower[i] = c \/ HexUpper[i] = c) - 1

RECURSIVE Pow(_, _)
Pow(b, n) == IF n = 0 THEN 1 ELSE b * Pow(b, n - 1)

Prefix == <<"0", "x">>

starts_with_pfx(s) == Len(s) >= 2 /\ s[1] = "0" /\ s[2] = "x"

StripPrefix(s) == IF starts_with_pfx(s) THEN SubSeq(s, 3, Len(s)) ELSE s

AllHex(s) == \A i \in 1..Len(s) : IsHexDigit(s[i])

FirstBad(s) == s[CHOOSE i \in 1..Len(s) :
                    /\ ~IsHexDigit(s[i])
                    /\ \A j \in 1..(i - 1) : IsHexDigit(s[j])]

RECURSIVE HexValue(_)
\* big-endian value of a run of hex digits
HexValue(s) ==
    IF s = <<>> THEN 0
    ELSE 16 * HexValue(SubSeq(s, 1, Len(s) - 1)) + intoval(s[Len(s)])

-----------------------------------------------------------------------------
(* Integer codec: SerHex<C> for an unsigned integer of w bytes. *)

\* the 2*w zero-padded digits of v, most significant first
StrictDigits(v, w, cap) ==
    [i \in 1..(2 * w) |->
        IF cap THEN fromvalcaps((v \div Pow(16, 2 * w - i)) % 16)
        ELSE fromval((v \div Pow(16, 2 * w - i)) % 16)]

RECURSIVE TrimZeros(_)
\* leading zero digits dropped, one digit always kept
TrimZeros(s) ==
    IF Len(s) > 1 /\ s[1] = "0" THEN TrimZeros(Tail(s)) ELSE s

\* the text into_hex_raw appends for the integer v under C
uint_into_hex_raw(C, v, w) ==
    (IF withpfx(C) THEN Prefix ELSE <<>>)
        \o (IF compact(C) THEN TrimZeros(StrictDigits(v, w, withcap(C)))
            ELSE StrictDigits(v, w, withcap(C)))

\* fromhex: the digit count is checked before the digits
fromhex(hex, w) ==
    IF Len(hex) # 2 * w THEN Err(SizeMismatch(2 * w, Len(hex)))
    ELSE IF ~AllHex(hex) THEN Err(InvalidDigit(FirstBad(hex)))
    ELSE Ok(HexValue(hex))

uint_from_hex_raw(C, src, w) ==
    LET hex == StripPrefix(src)
    IN  IF compact(C)
        THEN IF Len(hex) = 0 \/ Len(hex) > 2 * w
             THEN Err(SizeMismatch(2 * w, Len(hex)))
             ELSE IF ~AllHex(hex) THEN Err(InvalidDigit(FirstBad(hex)))
             ELSE Ok(HexValue(hex))
        ELSE fromhex(hex, w)

-----------------------------------------------------------------------------
(* Array codec: SerHex<C> for [u8; N], strict configurations only. *)

\* the hex text cut into consecutive chunks of n digits
chunks(src, n) ==
    [i \in 1..((Len(src) + n - 1) \div n) |->
        SubSeq(src, (i - 1) * n + 1, IF i * n < Len(src) THEN i * n ELSE Len(src))]

\* the first error of a run of element results
FirstErr(rs) ==
    rs[CHOOSE i \in 1..Len(rs) :
          /\ rs[i].tag = "err"
          /\ \A j \in 1..(i - 1) : rs[j].tag = "ok"]

Values(rs) == [i \in 1..Len(rs) |-> rs[i].val]

\* mutant: the actual size is reported in digits
array_wrong_len_digits(src, N) ==
    Err(SizeMismatch(N, Len(StripPrefix(src))))

array_wrong_len(src, N) ==
    Err(SizeMismatch(N, Len(StripPrefix(src)) \div 2))

\* mutant: an empty input passes the length test and is cut into chunks of size 0
array_from_hex_raw_zero_chunk(C, src, N) ==
    LET hex == StripPrefix(src)
        hexlen == Len(hex)
    IN  IF hexlen % N = 0
        THEN IF hexlen = 0 THEN Panic
             ELSE LET elems == [i \in 1..N |->
                                   fromhex(chunks(hex, hexlen \div N)[i], 1)]
                  IN  IF \E i \in 1..N : elems[i].tag = "err"
                      THEN FirstErr(elems)
                      ELSE Ok(Values(elems))
        ELSE array_wrong_len(src, N)

array_from_hex_raw(C, src, N) ==
    LET hex == StripPrefix(src)
        hexlen == Len(hex)
    IN  IF hexlen % N = 0 /\ hexlen # 0
        THEN LET elems == [i \in 1..N |->
                              fromhex(chunks(hex, hexlen \div N)[i], 1)]
             IN  IF \E i \in 1..N : elems[i].tag = "err"
                 THEN FirstErr(elems)
                 ELSE Ok(Values(elems))
        ELSE array_wrong_len(src, N)

-----------------------------------------------------------------------------
(* HexBytesVisitor: the bridge of SerHex::deserialize. *)

\* S::from_hex_raw for the value type of the call
from_hex_raw(ty, C, v, n) ==
    IF ty = "array" THEN array_from_hex_raw(C, v, n) ELSE uint_from_hex_raw(C, v, n)

HexShapes == {"str", "borrowed_str", "borrowed_bytes"}

HexBytesVisitor_visit_str(ty, C, v, n) == map_err_custom(from_hex_raw(ty, C, v, n))

HexBytesVisitor_visit_borrowed_str(ty, C, v, n) ==
    map_err_custom(from_hex_raw(ty, C, v, n))

HexBytesVisitor_visit_borrowed_bytes(ty, C, v, n) ==
    map_err_custom(from_hex_raw(ty, C, v, n))

\* SerHex::deserialize: deserialize_any hands the payload to one visitor method
SerHex_deserialize(ty, C, sh, v, n) ==
    CASE sh = "str" -> HexBytesVisitor_visit_str(ty, C, v, n)
      [] sh = "borrowed_str" -> HexBytesVisitor_visit_borrowed_str(ty, C, v, n)
      [] sh = "borrowed_bytes" -> HexBytesVisitor_visit_borrowed_bytes(ty, C, v, n)

-----------------------------------------------------------------------------
(* What a serialize call hands to the serializer. *)

NoWire == [kind |-> "unset", text |-> <<>>]
serialize_str(s) == [kind |-> "str", text |-> s]
serialize_some(s) == [kind |-> "some", text |-> s]
serialize_none == [kind |-> "none", text |-> <<>>]
\* the call returned S::Error::custom(e): the serializer was handed nothing
ser_error(e) == [kind |-> "error", text |-> Display(e)]

\* into_hex_raw of one element: the text appended, or the element's error
elem_into_hex_raw(C, v, w, fails) ==
    IF fails THEN Err(EncodeError) ELSE Ok(uint_into_hex_raw(C, v, w))

-----------------------------------------------------------------------------
(* SerHexOpt and OptHexBytesVisitor. *)

\* mutant: a present value goes out through serialize_str
SerHexOpt_serialize_str(C, option, w, fails) ==
    IF option # <<>>
    THEN LET r == elem_into_hex_raw(C, option[1], w, fails)
         IN  IF r.tag = "err" THEN ser_error(r.err) ELSE serialize_str(r.val)
    ELSE serialize_none

SerHexOpt_serialize(C, option, w, fails) ==
    IF option # <<>>
    THEN LET r == elem_into_hex_raw(C, option[1], w, fails)
         IN  IF r.tag = "err" THEN ser_error(r.err) ELSE serialize_some(r.val)
    ELSE serialize_none

\* Some(s) of a decoded value, or the wrapped codec's error as a custom error
some_of(r) == IF r.tag = "ok" THEN Ok(<<r.val>>) ELSE map_err_custom(r)

OptHexBytesVisitor_visit_str(C, v, w) == some_of(uint_from_hex_raw(C, v, w))

OptHexBytesVisitor_visit_borrowed_str(C, v, w) == some_of(uint_from_hex_raw(C, v, w))

OptHexBytesVisitor_visit_borrowed_bytes(C, v, w) == some_of(uint_from_hex_raw(C, v, w))

OptHexBytesVisitor_visit_none == Ok(<<>>)

OptHexBytesVisitor_visit_unit == Ok(<<>>)

\* a delivery that is not wrapped in "present"
OptDirect(C, sh, v, w) ==
    CASE sh = "str" -> OptHexBytesVisitor_visit_str(C, v, w)
      [] sh = "borrowed_str" -> OptHexBytesVisitor_visit_borrowed_str(C, v, w)
      [] sh = "borrowed_bytes" -> OptHexBytesVisitor_visit_borrowed_bytes(C, v, w)
      [] sh = "none" -> OptHexBytesVisitor_visit_none
      [] sh = "unit" -> OptHexBytesVisitor_visit_unit

\* mutant: a wrapped payload that fails to parse is taken as absent
OptHexBytesVisitor_visit_some_lenient(C, inner, v, w) ==
    IF OptDirect(C, inner, v, w).tag = "err" THEN Ok(<<>>)
    ELSE OptDirect(C, inner, v, w)

\* visit_some: deserialize_bytes(self) on the wrapped deserializer, which
\* delivers its content to the same visitor
OptHexBytesVisitor_visit_some(C, inner, v, w) == OptDirect(C, inner, v, w)

OptDirectShapes == {"str", "borrowed_str", "borrowed_bytes", "none", "unit"}

Wrapped(sh) == <<"some", sh>>

OptShapes == {<<sh>> : sh \in OptDirectShapes} \cup {Wrapped(sh) : sh \in OptDirectShapes}

\* SerHexOpt::deserialize: deserialize_any hands the delivery to the visitor
SerHexOpt_deserialize(C, sh, v, w) ==
    IF Len(sh) = 2 THEN OptHexBytesVisitor_visit_some(C, sh[2], v, w)
    ELSE OptDirect(C, sh[1], v, w)

-----------------------------------------------------------------------------
(* SerHexSeq, SeqHexBytesVisitor and seq_from_bytes. *)

RECURSIVE write_elems(_, _, _, _, _, _)
\* the loop over the elements: dst grows by one element per turn, the first
\* failing element ends the call
write_elems(S, sequence, w, fail, i, dst) ==
    IF i > Len(sequence) THEN Ok(dst)
    ELSE LET r == elem_into_hex_raw(S, sequence[i], w, i = fail)
         IN  IF r.tag = "err" THEN r
             ELSE write_elems(S, sequence, w, fail, i + 1, dst \o r.val)

\* mutant: every element is written under C itself, prefix included
SerHexSeq_serialize_perelem(C, sequence, w, fail) ==
    LET r == write_elems(C, sequence, w, fail, 1, <<>>)
    IN  IF r.tag = "err" THEN ser_error(r.err) ELSE serialize_str(r.val)

SerHexSeq_serialize(C, sequence, w, fail) ==
    LET dst0 == IF withpfx(C) THEN Prefix ELSE <<>>
        r == IF withcap(C)
             THEN write_elems(StrictCap, sequence, w, fail, 1, dst0)
             ELSE write_elems(Strict, sequence, w, fail, 1, dst0)
    IN  IF r.tag = "err" THEN ser_error(r.err) ELSE serialize_str(r.val)

\* mutant: the prefix is left in place
seq_src_keep(raw_) == raw_

seq_src(raw_) == IF starts_with_pfx(raw_) THEN SubSeq(raw_, 3, Len(raw_)) ELSE raw_

\* mutant: chunks that fail to decode are skipped instead of ending the call
seq_collect_lossy(src, hexsize, size_hint) ==
    LET cs == chunks(src, hexsize)
        elems == [i \in 1..Len(cs) |-> uint_from_hex_raw(Strict, cs[i], size_hint)]
    IN  Ok(Values(SelectSeq(elems, LAMBDA r : r.tag = "ok")))

\* the elements decoded chunk by chunk; the first failing chunk ends the call
seq_collect(src, hexsize, size_hint) ==
    LET cs == chunks(src, hexsize)
        elems == [i \in 1..Len(cs) |-> uint_from_hex_raw(Strict, cs[i], size_hint)]
    IN  IF \E i \in 1..Len(cs) : elems[i].tag = "err"
        THEN map_err_custom(FirstErr(elems))
        ELSE Ok(Values(elems))

seq_from_bytes(raw_, size_hint) ==
    LET src == seq_src(raw_)
        hexsize == size_hint * 2
    IN  \* `src.len() % hexsize` is evaluated first and panics on a zero divisor
        IF hexsize = 0 THEN Panic
        ELSE IF Len(src) % hexsize = 0 /\ hexsize # 0 /\ src # <<>>
        THEN seq_collect(src, hexsize, size_hint)
        ELSE custom(BadSequenceSize)

SeqShapes == {"str", "borrowed_str", "bytes", "borrowed_bytes"}

SeqHexBytesVisitor_visit_str(C, v, n) == seq_from_bytes(v, n)

SeqHexBytesVisitor_visit_borrowed_str(C, v, n) == seq_from_bytes(v, n)

SeqHexBytesVisitor_visit_bytes(C, v, n) == seq_from_bytes(v, n)

SeqHexBytesVisitor_visit_borrowed_bytes(C, v, n) == seq_from_bytes(v, n)

\* SerHexSeq::deserialize: deserialize_bytes hands the payload to the visitor
SerHexSeq_deserialize(C, sh, v, n) ==
    CASE sh = "str" -> SeqHexBytesVisitor_visit_str(C, v, n)
      [] sh = "borrowed_str" -> SeqHexBytesVisitor_visit_borrowed_str(C, v, n)
      [] sh = "bytes" -> SeqHexBytesVisitor_visit_bytes(C, v, n)
      [] sh = "borrowed_bytes" -> SeqHexBytesVisitor_visit_borrowed_bytes(C, v, n)

-----------------------------------------------------------------------------
(* The calls. *)

SeqsUpTo(S, n) == UNION {[1..k -> S] : k \in 0..n}

\* element values of a w-byte unsigned integer: 0x00, 0x0a, 0xaf and the maximum
SampleValues(w) == {0, 10, 175, Pow(256, w) - 1}

\* input bytes: two hex digits, the prefix letter and a non-hex letter
RawAlphabet == {"0", "a", "x", "g"}

RawInputs == SeqsUpTo(RawAlphabet, MaxRawLen)

Payloads == SeqsUpTo(RawAlphabet, MaxPayloadLen)

\* the array length of the Hash type of the tests
HashLen == 20

\* the inputs the tests decode into Hash
HashTestInputs ==
    {
     <<>>,
     <<"0", "x">>,
     <<"d", "f", "3", "8">>,
     <<"d", "f", "3", "8", "9", "2", "9", "5", "4", "8", "4", "b", "3", "0",
       "5", "9", "a", "4", "7", "2">>,
     <<"d", "f", "3", "8", "9", "2", "9", "5", "4", "8", "4", "b", "3", "0",
       "5", "9", "a", "4", "7", "2", "6", "d", "c", "6", "d", "8", "a", "5",
       "7", "f", "7", "1", "b", "b", "5", "f", "4", "c", "8", "1">>
    }

NoShape == <<"unset">>

Init ==
    /\ pc = "ready"
    /\ wire = NoWire
    /\ shape = NoShape
    /\ result = NoResult
    /\ \/ /\ op = "seq_serialize"
          /\ conf \in StrictConfigs
          /\ size \in 1..MaxElemSize
          /\ value \in SeqsUpTo(SampleValues(size), MaxSeqLen)
          /\ failAt \in 0..Len(value)
          /\ raw = <<>>
       \/ /\ op = "seq_deserialize"
          /\ conf \in StrictConfigs
          /\ size \in 0..MaxElemSize
          /\ value = <<>>
          /\ failAt = 0
          /\ raw \in RawInputs
       \/ /\ op = "opt_serialize"
          /\ conf \in Configs
          /\ size \in 1..MaxElemSize
          /\ value \in {<<>>} \cup {<<v>> : v \in SampleValues(size)}
          /\ failAt \in 0..Len(value)
          /\ raw = <<>>
       \/ /\ op = "opt_deserialize"
          /\ conf \in Configs
          /\ size \in 1..MaxElemSize
          /\ value = <<>>
          /\ failAt = 0
          /\ raw \in Payloads
       \/ /\ op = "array_deserialize"
          /\ conf \in StrictConfigs
          /\ value = <<>>
          /\ failAt = 0
          /\ \/ size \in 1..MaxArrayLen /\ raw \in RawInputs
             \/ size = HashLen /\ raw \in HashTestInputs
       \/ /\ op = "uint_deserialize"
          /\ conf \in Configs
          /\ size \in 1..MaxElemSize
          /\ value = <<>>
          /\ failAt = 0
          /\ raw \in Payloads

\* a serialize call ends: with an error, or with a token for the framework
Serialized(out) ==
    /\ wire' = out
    /\ pc' = IF out.kind = "error" THEN "done" ELSE "serialized"
    /\ result' = IF out.kind = "error" THEN custom(out.text) ELSE NoResult
    /\ UNCHANGED <<op, conf, size, value, failAt, raw, shape>>

\* a deserialize call ends with the visitor's result
Deserialized(sh, r) ==
    /\ shape' = sh
    /\ result' = r
    /\ pc' = "done"
    /\ UNCHANGED <<op, conf, size, value, failAt, raw, wire>>

\* SerHexSeq::<C>::serialize(sequence, serializer)
SeqSerialize ==
    /\ pc = "ready"
    /\ op = "seq_serialize"
    /\ Serialized(SerHexSeq_serialize(conf, value, size, failAt))

\* SerHexSeq::<C>::deserialize of the string SeqSerialize produced
SeqDeserializeWire ==
    /\ pc = "serialized"
    /\ op = "seq_serialize"
    /\ \E sh \in SeqShapes :
          Deserialized(<<sh>>, SerHexSeq_deserialize(conf, sh, wire.text, size))

\* SerHexSeq::<C>::deserialize of an arbitrary input
SeqDeserialize ==
    /\ pc = "ready"
    /\ op = "seq_deserialize"
    /\ \E sh \in SeqShapes :
          Deserialized(<<sh>>, SerHexSeq_deserialize(conf, sh, raw, size))

\* SerHexOpt::<C>::serialize(option, serializer)
OptSerialize ==
    /\ pc = "ready"
    /\ op = "opt_serialize"
    /\ Serialized(SerHexOpt_serialize(conf, value, size, failAt = 1))

\* the deliveries by which a framework hands back what OptSerialize produced
WireShapes(w) ==
    IF w.kind = "none" THEN {<<"none">>, <<"unit">>}
    ELSE {<<sh>> : sh \in HexShapes} \cup {Wrapped(sh) : sh \in HexShapes}

\* SerHexOpt::<C>::deserialize of what OptSerialize produced
OptDeserializeWire ==
    /\ pc = "serialized"
    /\ op = "opt_serialize"
    /\ \E sh \in WireShapes(wire) :
          Deserialized(sh, SerHexOpt_deserialize(conf, sh, wire.text, size))

\* SerHexOpt::<C>::deserialize of an arbitrary delivery
OptDeserialize ==
    /\ pc = "ready"
    /\ op = "opt_deserialize"
    /\ \E sh \in OptShapes :
          Deserialized(sh, SerHexOpt_deserialize(conf, sh, raw, size))

\* SerHex::<C>::deserialize into [u8; N]
ArrayDeserialize ==
    /\ pc = "ready"
    /\ op = "array_deserialize"
    /\ \E sh \in HexShapes :
          Deserialized(<<sh>>, SerHex_deserialize("array", conf, sh, raw, size))

\* SerHex::<C>::deserialize into an unsigned integer
UintDeserialize ==
    /\ pc = "ready"
    /\ op = "uint_deserialize"
    /\ \E sh \in HexShapes :
          Deserialized(<<sh>>, SerHex_deserialize("uint", conf, sh, raw, size))

Next ==
    \/ SeqSerialize
    \/ SeqDeserializeWire
    \/ SeqDeserialize
    \/ OptSerialize
    \/ OptDeserializeWire
    \/ OptDeserialize
    \/ ArrayDeserialize
    \/ UintDeserialize

Spec == Init /\ [][Next]_vars

-----------------------------------------------------------------------------
(* Properties. *)

Done(o) == pc = "done" /\ op = o

\* C1: every sequence SerHexSeq::<C>::serialize turned into a string, of any
\* length from 0 up, is decoded back to an equal sequence by
\* SerHexSeq::<C>::deserialize.
SeqRoundTrip ==
    (Done("seq_serialize") /\ wire.kind = "str") => result = Ok(value)

\* C2: seq_from_bytes ends with the bad-sequence-size error whenever size() is 0,
\* or no byte is left after the prefix, or the bytes left are not a multiple of
\* 2*size().
SeqSizeCheck ==
    (/\ Done("seq_deserialize")
     /\ \/ size = 0
        \/ Len(StripPrefix(raw)) = 0
        \/ Len(StripPrefix(raw)) % (2 * size) # 0)
    => result = custom(BadSequenceSize)

\* C3: with size() > 0 and a positive multiple of 2*size() digits left, the result
\* holds one element per chunk, element i being the strict decoding of chunk i;
\* if a chunk fails the result is the first failing chunk's error and nothing else.
SeqDecodeResult ==
    (/\ Done("seq_deserialize")
     /\ size > 0
     /\ Len(StripPrefix(raw)) > 0
     /\ Len(StripPrefix(raw)) % (2 * size) = 0)
    => LET src == StripPrefix(raw)
           n == Len(src) \div (2 * size)
           dec(i) == uint_from_hex_raw(Strict,
                         SubSeq(src, (i - 1) * 2 * size + 1, i * 2 * size), size)
           bad == {i \in 1..n : dec(i).tag = "err"}
       IN  IF bad = {}
           THEN /\ result.tag = "ok"
                /\ Len(result.val) = n
                /\ \A i \in 1..n : result.val[i] = dec(i).val
           ELSE result =
                  custom(Display(dec(CHOOSE i \in bad : \A j \in bad : i <= j).err))

\* C3 witness: two chunks decoded to two different elements, in input order.
SeqDecodeResultWitness ==
    /\ Done("seq_deserialize")
    /\ result.tag = "ok"
    /\ Len(result.val) = 2
    /\ result.val[1] < result.val[2]

\* C4: serialize hands over one string: the prefix once if C is prefixed, then
\* every element's strict encoding in order, upper case iff C is capitalized; if
\* an element fails to encode, no string is handed over.
SeqEncodeFormat ==
    (op = "seq_serialize" /\ pc # "ready")
    => IF failAt = 0
       THEN LET P == IF conf.pfx THEN 2 ELSE 0
                w == 2 * size
            IN  /\ wire.kind = "str"
                /\ Len(wire.text) = P + w * Len(value)
                /\ conf.pfx => (wire.text[1] = "0" /\ wire.text[2] = "x")
                /\ \A i \in 1..Len(value) :
                      SubSeq(wire.text, P + (i - 1) * w + 1, P + i * w)
                          = StrictDigits(value[i], size, conf.cap)
       ELSE wire.kind = "error" /\ pc = "done" /\ result.tag = "err"

\* C4 witness: a prefixed, capitalized encoding of three elements.
SeqEncodeFormatWitness ==
    /\ op = "seq_serialize"
    /\ pc = "serialized"
    /\ conf = StrictCapPfx
    /\ value = <<175, 10, 255>>
    /\ wire.text = <<"0", "x", "A", "F", "0", "A", "F", "F">>

\* C5: SerHexOpt::serialize emits Some(v) as the value's hex text through the
\* some signal and None through the none signal, and SerHexOpt::deserialize of
\* that output returns the option it started from.
OptRoundTrip ==
    (op = "opt_serialize" /\ pc # "ready" /\ failAt = 0)
    => /\ value = <<>> => wire = serialize_none
       /\ value # <<>> =>
             wire = serialize_some(uint_into_hex_raw(conf, value[1], size))
       /\ pc = "done" => result = Ok(value)

\* C5 witness: Some(0x0a) under a compact prefixed configuration came back.
OptRoundTripWitness ==
    /\ Done("opt_serialize")
    /\ conf = CompactPfx
    /\ value = <<10>>
    /\ wire.text = <<"0", "x", "a">>
    /\ result = Ok(<<10>>)

\* C6: the option visitor returns None for a null or unit delivery; for a string
\* or borrowed-bytes delivery of p it returns Some(v) exactly when from_hex_raw(p)
\* returns v and fails with that codec's error otherwise; a delivery wrapped in
\* "present" ends as the direct delivery of the same payload does.
OptDecodeByShape ==
    Done("opt_deserialize")
    => LET direct == shape[Len(shape)]
           r == uint_from_hex_raw(conf, raw, size)
       IN  /\ direct \in {"none", "unit"} => result = Ok(<<>>)
           /\ direct \in {"str", "borrowed_str", "borrowed_bytes"} =>
                 IF r.tag = "ok" THEN result = Ok(<<r.val>>)
                 ELSE result = custom(Display(r.err))

\* C6 witness: a wrapped delivery of an unparsable payload ended with the codec's
\* error.
OptDecodeByShapeWitness ==
    /\ Done("opt_deserialize")
    /\ shape = Wrapped("borrowed_bytes")
    /\ raw = <<"a", "g">>
    /\ result = custom(<<"non-hex character ", BQ, "g", BQ>>)

IsDecimal(t) == t # <<>> /\ \A i \in 1..Len(t) : \E k \in 1..10 : DecDigits[k] = t[i]

\* the text reads: expected buff size, a quoted number, got, a quoted number
IsSizeMismatchText(msg) ==
    /\ Len(msg) >= 7
    /\ msg[1] = "expected buff size "
    /\ msg[2] = BQ
    /\ msg[Len(msg)] = BQ
    /\ \E i \in 4..(Len(msg) - 4) :
          /\ msg[i] = BQ /\ msg[i + 1] = " got " /\ msg[i + 2] = BQ
          /\ IsDecimal(SubSeq(msg, 3, i - 1))
          /\ IsDecimal(SubSeq(msg, i + 3, Len(msg) - 1))

\* C7: decoding into [u8; N] succeeds iff exactly 2*N digits are left after the
\* prefix and all are hex digits; any other digit count fails with the
\* size-mismatch message and no value.
ArrayWidthRule ==
    Done("array_deserialize")
    => LET hex == StripPrefix(raw)
       IN  /\ result.tag = "ok" <=> (Len(hex) = 2 * size /\ AllHex(hex))
           /\ Len(hex) # 2 * size
                 => (result.tag = "err" /\ IsSizeMismatchText(result.msg))
           /\ result.tag = "ok" => Len(result.val) = size

\* C7 witness: the forty digits of the test decoded into [u8; 20].
ArrayWidthRuleWitness ==
    /\ Done("array_deserialize")
    /\ size = HashLen
    /\ Len(raw) = 2 * HashLen
    /\ result.tag = "ok"
    /\ result.val[1] = 223
    /\ result.val[HashLen] = 129

FlipPfx(C) == [C EXCEPT !.pfx = ~C.pfx]

\* C9: a decode of "0x" followed by hex digits d ends as the decode of d alone,
\* for the sequence codec and for a single value, whatever the configuration; the
\* configuration's prefix flag does not change a decode.
PrefixOptional ==
    pc = "done"
    => LET d == SubSeq(raw, 3, Len(raw))
           pfxd == starts_with_pfx(raw) /\ AllHex(d)
       IN  /\ op = "seq_deserialize" =>
                 /\ pfxd => result = SerHexSeq_deserialize(conf, shape[1], d, size)
                 /\ result = SerHexSeq_deserialize(FlipPfx(conf), shape[1], raw, size)
           /\ op = "uint_deserialize" =>
                 /\ pfxd => result = SerHex_deserialize("uint", conf, shape[1], d, size)
                 /\ result = SerHex_deserialize("uint", FlipPfx(conf), shape[1], raw, size)
           /\ op = "opt_deserialize" =>
                 /\ pfxd => result = SerHexOpt_deserialize(conf, shape, d, size)
                 /\ result = SerHexOpt_deserialize(FlipPfx(conf), shape, raw, size)

\* C9 witness: a prefixed input decoded under the unprefixed Strict configuration.
PrefixOptionalWitness ==
    /\ Done("seq_deserialize")
    /\ conf = Strict
    /\ raw = <<"0", "x", "a", "a">>
    /\ result = Ok(<<170>>)

====
